---- MODULE Spec2Model ----
(***************************************************************************)
(* The natural-language command interpreter of the flow authoring tool:    *)
(* parseAICommand (src/src/lib/ai-parser.ts) with its remote attempt       *)
(* through the /api/ai route (src/src/app/api/ai/route.ts), the shared     *)
(* validateAndResolveCommand and the rule-based getEnhancedMockResponse.   *)
(*                                                                         *)
(* Text is a TLA+ string, read one character at a time with SubSeq; the    *)
(* regular expressions of the source are values matched by a backtracking  *)
(* matcher with the priorities of the JavaScript engine (leftmost start,   *)
(* alternatives in order, greedy and lazy repetition).  A command is a     *)
(* record that holds exactly the fields the code sets, so an absent field  *)
(* of the AICommand interface is an absent field of the record.            *)
(***************************************************************************)
EXTENDS Integers, Sequences, FiniteSets, TLC

(***************************************************************************)
(* Strings: the String.prototype methods the parser uses.                  *)
(***************************************************************************)
CharAt(s, i) == SubSeq(s, i, i)

UpperCaseLetters == "ABCDEFGHIJKLMNOPQRSTUVWXYZ"

LowerCaseLetters == "abcdefghijklmnopqrstuvwxyz"

ToLowerChar(c) ==
  IF \E i \in 1..Len(UpperCaseLetters) : CharAt(UpperCaseLetters, i) = c
  THEN CharAt(LowerCaseLetters,
              CHOOSE i \in 1..Len(UpperCaseLetters) : CharAt(UpperCaseLetters, i) = c)
  ELSE c

RECURSIVE ToLowerFrom(_, _)
ToLowerFrom(s, i) ==
  IF i > Len(s) THEN "" ELSE ToLowerChar(CharAt(s, i)) \o ToLowerFrom(s, i + 1)

ToLowerCase(s) == ToLowerFrom(s, 1)

IsSpace(c) == c \in {" ", "\t", "\n", "\r"}

IsDigit(c) == c \in {"0", "1", "2", "3", "4", "5", "6", "7", "8", "9"}

IsQuote(c) == c \in {"\"", "'"}

RECURSIVE TrimStartIndex(_, _)
TrimStartIndex(s, i) ==
  IF i <= Len(s) /\ IsSpace(CharAt(s, i)) THEN TrimStartIndex(s, i + 1) ELSE i

RECURSIVE TrimEndIndex(_, _)
TrimEndIndex(s, j) ==
  IF j >= 1 /\ IsSpace(CharAt(s, j)) THEN TrimEndIndex(s, j - 1) ELSE j

Trim(s) == SubSeq(s, TrimStartIndex(s, 1), TrimEndIndex(s, Len(s)))

StartsAt(s, pos, w) ==
  /\ pos + Len(w) - 1 <= Len(s)
  /\ SubSeq(s, pos, pos + Len(w) - 1) = w

Includes(s, w) == \E pos \in 1..(Len(s) + 1) : StartsAt(s, pos, w)

\* s.split(/\s+/): the pieces between maximal runs of white space; a string
\* that starts or ends with white space gives an empty first or last piece.
RECURSIVE SplitFrom(_, _, _)
SplitFrom(s, i, cur) ==
  IF i > Len(s) THEN <<cur>>
  ELSE IF IsSpace(CharAt(s, i))
       THEN <<cur>> \o SplitFrom(s, TrimStartIndex(s, i), "")
       ELSE SplitFrom(s, i + 1, cur \o CharAt(s, i))

SplitSpaces(s) == SplitFrom(s, 1, "")

DigitValue(c) == CHOOSE d \in 0..9 : ToString(d) = c

\* parseInt on a string of decimal digits
RECURSIVE ParseIntFrom(_, _, _)
ParseIntFrom(s, i, acc) ==
  IF i > Len(s) THEN acc
  ELSE ParseIntFrom(s, i + 1, acc * 10 + DigitValue(CharAt(s, i)))

ParseInt(s) == ParseIntFrom(s, 1, 0)

SelectFirst(seq, Test(_)) ==
  IF \E i \in 1..Len(seq) : Test(seq[i])
  THEN LET i == CHOOSE k \in 1..Len(seq) :
                  Test(seq[k]) /\ \A m \in 1..(k - 1) : ~Test(seq[m])
       IN  <<seq[i]>>
  ELSE <<>>

\* array.join(sep)
RECURSIVE Join(_, _)
Join(strs, sep) ==
  IF Len(strs) = 0 THEN ""
  ELSE IF Len(strs) = 1 THEN strs[1]
  ELSE strs[1] \o sep \o Join(Tail(strs), sep)

(***************************************************************************)
(* Regular expressions.  A pattern is a sequence of items:                 *)
(*   Lit(w)      the characters of w                                       *)
(*   Alt(ps)     (p1|p2|...), tried in order                               *)
(*   Rep(...)    a character class repeated, greedy or lazy, optionally    *)
(*               a capture group                                           *)
(*   Opt(p)      (?:p)?                                                    *)
(*   EndAnchor   $                                                         *)
(***************************************************************************)
Lit(w) == [t |-> "lit", s |-> w]

Alt(ps) == [t |-> "alt", alts |-> ps]

Words(ws) == Alt([i \in 1..Len(ws) |-> <<Lit(ws[i])>>])

Rep(cls, min, many, greedy, cap) ==
  [t |-> "rep", cls |-> cls, min |-> min, many |-> many, greedy |-> greedy, cap |-> cap]

Opt(p) == [t |-> "opt", r |-> p]

EndAnchor == [t |-> "end"]

\* .*   \s+   \s*   \s   ["']?   ([^"']+)   ([^"']+?)   (\d+)
AnyStar == Rep("any", 0, TRUE, TRUE, 0)

Spaces1 == Rep("space", 1, TRUE, TRUE, 0)

Spaces0 == Rep("space", 0, TRUE, TRUE, 0)

OneSpace == Rep("space", 1, FALSE, TRUE, 0)

OptQuote == Rep("quote", 0, FALSE, TRUE, 0)

CapNotQuote(k) == Rep("notquote", 1, TRUE, TRUE, k)

CapNotQuoteLazy(k) == Rep("notquote", 1, TRUE, FALSE, k)

CapDigits(k) == Rep("digit", 1, TRUE, TRUE, k)

InClass(c, cls) ==
  CASE cls = "any" -> c # "\n" /\ c # "\r"
    [] cls = "space" -> IsSpace(c)
    [] cls = "digit" -> IsDigit(c)
    [] cls = "quote" -> IsQuote(c)
    [] cls = "notquote" -> ~IsQuote(c)

RECURSIVE RunLength(_, _, _)
RunLength(s, pos, cls) ==
  IF pos <= Len(s) /\ InClass(CharAt(s, pos), cls)
  THEN 1 + RunLength(s, pos + 1, cls)
  ELSE 0

NoMatch == [ok |-> FALSE, caps |-> <<>>]

RECURSIVE MatchHere(_, _, _, _)
RECURSIVE TryAlts(_, _, _, _, _, _)
RECURSIVE TryRep(_, _, _, _, _, _, _)

\* the pattern `items` matched at position pos of s, with captures caps so far
MatchHere(items, s, pos, caps) ==
  IF Len(items) = 0 THEN [ok |-> TRUE, caps |-> caps]
  ELSE LET h == Head(items)
           rest == Tail(items)
       IN CASE h.t = "lit" ->
                 IF StartsAt(s, pos, h.s)
                 THEN MatchHere(rest, s, pos + Len(h.s), caps)
                 ELSE NoMatch
            [] h.t = "alt" -> TryAlts(h.alts, 1, rest, s, pos, caps)
            [] h.t = "opt" ->
                 LET with == MatchHere(h.r \o rest, s, pos, caps)
                 IN  IF with.ok THEN with ELSE MatchHere(rest, s, pos, caps)
            [] h.t = "rep" ->
                 LET run == RunLength(s, pos, h.cls)
                     hi == IF h.many THEN run ELSE IF run > 1 THEN 1 ELSE run
                 IN  TryRep(h, rest, s, pos, caps, IF h.greedy THEN hi ELSE h.min, hi)
            [] h.t = "end" ->
                 IF pos = Len(s) + 1 THEN MatchHere(rest, s, pos, caps) ELSE NoMatch

TryAlts(alts, i, rest, s, pos, caps) ==
  IF i > Len(alts) THEN NoMatch
  ELSE LET r == MatchHere(alts[i] \o rest, s, pos, caps)
       IN  IF r.ok THEN r ELSE TryAlts(alts, i + 1, rest, s, pos, caps)

\* n repetitions, then the rest; a greedy item gives one back on failure, a
\* lazy one takes one more
TryRep(h, rest, s, pos, caps, n, hi) ==
  IF n < h.min \/ n > hi THEN NoMatch
  ELSE LET caps2 == IF h.cap > 0
                    THEN [caps EXCEPT ![h.cap] = SubSeq(s, pos, pos + n - 1)]
                    ELSE caps
           r == MatchHere(rest, s, pos + n, caps2)
       IN  IF r.ok THEN r
           ELSE TryRep(h, rest, s, pos, caps, IF h.greedy THEN n - 1 ELSE n + 1, hi)

RECURSIVE SearchFrom(_, _, _, _)
SearchFrom(re, s, pos, caps) ==
  IF pos > Len(s) + 1 THEN NoMatch
  ELSE LET r == MatchHere(re, s, pos, caps)
       IN  IF r.ok THEN r ELSE SearchFrom(re, s, pos + 1, caps)

\* s.match(re) for a pattern without the g flag: the leftmost match
Match(s, re) == SearchFrom(re, s, 1, <<"", "">>)

\* a.match(..) || b.match(..) || ...
RECURSIVE FirstMatch(_, _)
FirstMatch(s, res) ==
  IF Len(res) = 0 THEN NoMatch
  ELSE LET r == Match(s, Head(res))
       IN  IF r.ok THEN r ELSE FirstMatch(s, Tail(res))

(***************************************************************************)
(* The patterns of getEnhancedMockResponse.  Its input is lower-cased      *)
(* before any match, so the i flag of some of them changes nothing.        *)
(***************************************************************************)
NodeWord == Words(<<"node", "step", "state">>)

\* /(add|create|new|make|insert).*(node|step|state)/
AddTrigger == <<Words(<<"add", "create", "new", "make", "insert">>), AnyStar, NodeWord>>

\* /(?:called|named|with.*label|that.*says|saying|with.*text)\s+["']?([^"']+)["']?/i
AddLabelCalled ==
  <<Alt(<< <<Lit("called")>>, <<Lit("named")>>,
           <<Lit("with"), AnyStar, Lit("label")>>,
           <<Lit("that"), AnyStar, Lit("says")>>,
           <<Lit("saying")>>,
           <<Lit("with"), AnyStar, Lit("text")>> >>),
    Spaces1, OptQuote, CapNotQuote(1), OptQuote>>

\* /(?:node|step|state)\s+(?:called|named)\s+["']?([^"']+)["']?/i
AddLabelNodeCalled ==
  <<NodeWord, Spaces1, Words(<<"called", "named">>), Spaces1,
    OptQuote, CapNotQuote(1), OptQuote>>

\* /(?:add|create|new|make)\s+(?:a\s+)?(?:node|step|state)\s+["']?([^"']+)["']?/i
AddLabelTrailing ==
  <<Words(<<"add", "create", "new", "make">>), Spaces1, Opt(<<Lit("a"), Spaces1>>),
    NodeWord, Spaces1, OptQuote, CapNotQuote(1), OptQuote>>

\* /["']([^"']+)["']/
QuotedText ==
  <<Rep("quote", 1, FALSE, TRUE, 0), CapNotQuote(1), Rep("quote", 1, FALSE, TRUE, 0)>>

\* /(delete|remove|drop|eliminate|get rid of).*(node|step|state)/
DeleteTrigger ==
  <<Words(<<"delete", "remove", "drop", "eliminate", "get rid of">>), AnyStar, NodeWord>>

\* /(?:node|step|state)\s*(\d+)/i
NodeNumber == <<NodeWord, Spaces0, CapDigits(1)>>

\* /(\d+)(?:\s|$)/
BareNumber == <<CapDigits(1), Alt(<< <<OneSpace>>, <<EndAnchor>> >>)>>

\* /(?:the|a|an)\s+["']?([^"']+?)(?:\s+(?:node|step|state))?["']?$/i
DeleteLabelArticle ==
  <<Words(<<"the", "a", "an">>), Spaces1, OptQuote, CapNotQuoteLazy(1),
    Opt(<<Spaces1, NodeWord>>), OptQuote, EndAnchor>>

\* /(?:node|step|state)\s+["']?([^"']+)["']?/i
DeleteLabelAfterNode == <<NodeWord, Spaces1, OptQuote, CapNotQuote(1), OptQuote>>

\* /(update|change|edit|modify|rename).*(node|step|state)/
UpdateTrigger ==
  <<Words(<<"update", "change", "edit", "modify", "rename">>), AnyStar, NodeWord>>

\* /(?:to|say|says|with|as|named|called)\s+["']?([^"']+)["']?/i
UpdateLabel ==
  <<Words(<<"to", "say", "says", "with", "as", "named", "called">>),
    Spaces1, OptQuote, CapNotQuote(1), OptQuote>>

\* /(connect|link|join|attach).*(node|step|state)/
ConnectTrigger == <<Words(<<"connect", "link", "join", "attach">>), AnyStar, NodeWord>>

\* /(?:node|step|state)\s*(\d+).*(?:node|step|state)\s*(\d+)/i
TwoNodeNumbers ==
  <<NodeWord, Spaces0, CapDigits(1), AnyStar, NodeWord, Spaces0, CapDigits(2)>>

\* /(\d+).*(\d+)/
TwoBareNumbers == <<CapDigits(1), AnyStar, CapDigits(2)>>

\* /(disconnect|unlink|remove.*connection|delete.*edge|break.*connection)/
DisconnectTrigger ==
  <<Alt(<< <<Lit("disconnect")>>, <<Lit("unlink")>>,
           <<Lit("remove"), AnyStar, Lit("connection")>>,
           <<Lit("delete"), AnyStar, Lit("edge")>>,
           <<Lit("break"), AnyStar, Lit("connection")>> >>)>>

\* /(explain|describe|what|how|tell.*about|show.*me|what.*does|what.*is)/
ExplainTrigger ==
  <<Alt(<< <<Lit("explain")>>, <<Lit("describe")>>, <<Lit("what")>>, <<Lit("how")>>,
           <<Lit("tell"), AnyStar, Lit("about")>>,
           <<Lit("show"), AnyStar, Lit("me")>>,
           <<Lit("what"), AnyStar, Lit("does")>>,
           <<Lit("what"), AnyStar, Lit("is")>> >>)>>

(***************************************************************************)
(* Node lists.  nodes[i] of the code is Nodes[i + 1] here; an index        *)
(* outside the array gives undefined, here the empty sequence.             *)
(***************************************************************************)
\* NodeAt reading the user's number as the array index: nodes[nodeNumber]
NodeAtUnshifted(nodes, k) == IF k + 1 >= 0 /\ k + 1 < Len(nodes) THEN <<nodes[k + 2]>> ELSE <<>>

NodeAt(nodes, k) == IF k >= 0 /\ k < Len(nodes) THEN <<nodes[k + 1]>> ELSE <<>>

NodeIds(nodes) == {nodes[i].id : i \in 1..Len(nodes)}

\* nodes.map((n, i) => `${i + 1}. "${n.label}"`)
NumberedLabels(nodes) ==
  [i \in 1..Len(nodes) |-> ToString(i) \o ". \"" \o nodes[i].label \o "\""]

\* nodes.map(n => `"${n.label}"`)
QuotedLabels(nodes) == [i \in 1..Len(nodes) |-> "\"" \o nodes[i].label \o "\""]

StopWords == {"the", "a", "an", "node", "step", "state", "nodes", "steps", "states"}

EveryTerm(terms, label) == \A i \in 1..Len(terms) : Includes(label, terms[i])

SomeTerm(terms, label) == \E i \in 1..Len(terms) : Includes(label, terms[i])

(***************************************************************************)
(* getEnhancedMockResponse: the rule-based parser, one operator per        *)
(* branch.  Each is the body of its if: what the branch returns once its   *)
(* trigger has matched.                                                    *)
(***************************************************************************)
Unknown(message) == [type |-> "unknown", message |-> message]

\* AddNodeBranch numbering the default label by nodes.length
AddNodeBranchCountLabel(input, nodes) ==
  LET labelMatch == FirstMatch(input,
                      <<AddLabelCalled, AddLabelNodeCalled, AddLabelTrailing, QuotedText>>)
      label == IF labelMatch.ok THEN Trim(labelMatch.caps[1])
               ELSE "Node " \o ToString(Len(nodes))
  IN  [type |-> "add_node", nodeLabel |-> label]

AddNodeBranch(input, nodes) ==
  LET labelMatch == FirstMatch(input,
                      <<AddLabelCalled, AddLabelNodeCalled, AddLabelTrailing, QuotedText>>)
      label == IF labelMatch.ok THEN Trim(labelMatch.caps[1])
               ELSE "Node " \o ToString(Len(nodes) + 1)
  IN  [type |-> "add_node", nodeLabel |-> label]

\* lines 250-255: the search terms without the common words, unless all are
FinalTerms(searchTerms) ==
  LET filteredTerms == SelectSeq(searchTerms, LAMBDA t : t \notin StopWords)
  IN  IF Len(filteredTerms) > 0 THEN filteredTerms ELSE searchTerms

\* FindByTerms without the exact match of line 258
FindByTermsNoExact(searchLabel, finalTerms, nodes) ==
  LET fuzzy == IF Len(finalTerms) > 0
               THEN SelectFirst(nodes,
                      LAMBDA n : EveryTerm(finalTerms, ToLowerCase(n.label)))
               ELSE <<>>
      significantTerms == SelectSeq(finalTerms, LAMBDA t : Len(t) > 2)
  IN  IF Len(fuzzy) = 0 /\ Len(finalTerms) > 0 /\ Len(significantTerms) > 0
      THEN SelectFirst(nodes,
             LAMBDA n : SomeTerm(significantTerms, ToLowerCase(n.label)))
      ELSE fuzzy

\* lines 257-277: exact label, then every term, then any significant term
FindByTerms(searchLabel, finalTerms, nodes) ==
  LET exact == SelectFirst(nodes, LAMBDA n : ToLowerCase(n.label) = searchLabel)
      fuzzy == IF Len(exact) = 0 /\ Len(finalTerms) > 0
               THEN SelectFirst(nodes,
                      LAMBDA n : EveryTerm(finalTerms, ToLowerCase(n.label)))
               ELSE exact
      significantTerms == SelectSeq(finalTerms, LAMBDA t : Len(t) > 2)
  IN  IF Len(fuzzy) = 0 /\ Len(finalTerms) > 0 /\ Len(significantTerms) > 0
      THEN SelectFirst(nodes,
             LAMBDA n : SomeTerm(significantTerms, ToLowerCase(n.label)))
      ELSE fuzzy

\* lines 247-248
FindByLabel(searchLabel, nodes) ==
  FindByTerms(searchLabel,
              FinalTerms(SelectSeq(SplitSpaces(searchLabel), LAMBDA t : Len(t) > 0)),
              nodes)

\* lines 242-285: the label search of the delete branch: the node found, or none
DeleteByLabel(input, nodes) ==
  LET labelMatch == FirstMatch(input,
                      <<DeleteLabelArticle, DeleteLabelAfterNode, QuotedText>>)
  IN  IF labelMatch.ok THEN FindByLabel(ToLowerCase(Trim(labelMatch.caps[1])), nodes)
      ELSE <<>>

\* lines 225-238: the node the number names, or none
DeleteByNumber(input, nodes) ==
  LET nodeIdMatch == FirstMatch(input, <<NodeNumber, BareNumber>>)
  IN  IF nodeIdMatch.ok THEN NodeAt(nodes, ParseInt(nodeIdMatch.caps[1]) - 1) ELSE <<>>

\* the first of the searches, in order, that found a node
FirstFound(searches) ==
  IF \E i \in 1..Len(searches) : Len(searches[i]) > 0
  THEN searches[CHOOSE i \in 1..Len(searches) :
                  Len(searches[i]) > 0 /\ \A k \in 1..(i - 1) : Len(searches[k]) = 0]
  ELSE <<>>

DeleteCommand(node, nodes) ==
  IF Len(node) > 0 THEN [type |-> "delete_node", nodeId |-> node[1].id]
  ELSE Unknown("Could not find the node to delete. Available nodes: "
               \o (IF Len(nodes) > 0 THEN Join(NumberedLabels(nodes), ", ")
                   ELSE "none"))

\* the number is tried first; the label search runs when it names no node
DeleteNodeBranch(input, nodes) ==
  DeleteCommand(FirstFound(<<DeleteByNumber(input, nodes), DeleteByLabel(input, nodes)>>),
                nodes)

UpdateNodeBranch(input, nodes) ==
  LET nodeIdMatch == Match(input, NodeNumber)
      labelMatch == FirstMatch(input, <<UpdateLabel, QuotedText>>)
      node == IF nodeIdMatch.ok /\ labelMatch.ok
              THEN NodeAt(nodes, ParseInt(nodeIdMatch.caps[1]) - 1)
              ELSE <<>>
  IN  IF Len(node) > 0
      THEN [type |-> "update_node", nodeId |-> node[1].id,
            nodeLabel |-> Trim(labelMatch.caps[1])]
      ELSE Unknown("Could not parse update command. Format: \"Update node 1 to say Welcome\"")

\* the two ordinals of a connect or disconnect command, resolved by position
TwoNodesBranch(input, nodes, type, failure) ==
  LET nodesMatch == FirstMatch(input, <<TwoNodeNumbers, TwoBareNumbers>>)
      sourceNode == IF nodesMatch.ok
                    THEN NodeAt(nodes, ParseInt(nodesMatch.caps[1]) - 1) ELSE <<>>
      targetNode == IF nodesMatch.ok
                    THEN NodeAt(nodes, ParseInt(nodesMatch.caps[2]) - 1) ELSE <<>>
  IN  IF Len(sourceNode) > 0 /\ Len(targetNode) > 0
      THEN [type |-> type, sourceNodeId |-> sourceNode[1].id,
            targetNodeId |-> targetNode[1].id]
      ELSE Unknown(failure)

ConnectNodesBranch(input, nodes) ==
  TwoNodesBranch(input, nodes, "connect_nodes",
    "Could not find the nodes to connect. Format: \"Connect node 1 to node 2\"")

DisconnectNodesBranch(input, nodes) ==
  TwoNodesBranch(input, nodes, "disconnect_nodes", "Could not find the nodes to disconnect.")

\* ExplainBranch without the test of nodes.length === 0 of line 373
ExplainBranchAlwaysLists(input, nodes) ==
  [type |-> "explain",
   message |-> "Current flow structure:\n\nNodes:\n"
               \o Join(NumberedLabels(nodes), "\n")
               \o "\n\nTotal: " \o ToString(Len(nodes)) \o " node(s)"]

ExplainBranch(input, nodes) ==
  IF Len(nodes) = 0
  THEN [type |-> "explain",
        message |-> "The flow is currently empty. Add some nodes to get started!"]
  ELSE [type |-> "explain",
        message |-> "Current flow structure:\n\nNodes:\n"
                    \o Join(NumberedLabels(nodes), "\n")
                    \o "\n\nTotal: " \o ToString(Len(nodes)) \o " node(s)"]

DefaultUnknown ==
  Unknown("I didn't understand that command. Try: \"Add a node called X\", \"Delete node 1\", \"Delete the end call node\", \"Connect node 1 to node 2\", or \"Update node 1 to say Y\"")

Normalize(userInput) == Trim(ToLowerCase(userInput))

\* the detectors in the order of the code, each with the trigger of its if
Detectors ==
  <<[intent |-> "add", trigger |-> AddTrigger],
    [intent |-> "delete", trigger |-> DeleteTrigger],
    [intent |-> "update", trigger |-> UpdateTrigger],
    [intent |-> "connect", trigger |-> ConnectTrigger],
    [intent |-> "disconnect", trigger |-> DisconnectTrigger],
    [intent |-> "explain", trigger |-> ExplainTrigger]>>

Triggered(input, i) == Match(input, Detectors[i].trigger).ok

\* the first detector whose trigger matches, "none" when none does
DetectedIntent(input) ==
  IF \E i \in 1..Len(Detectors) : Triggered(input, i)
  THEN Detectors[CHOOSE i \in 1..Len(Detectors) :
                   Triggered(input, i) /\ \A k \in 1..(i - 1) : ~Triggered(input, k)].intent
  ELSE "none"

\* the body of the if whose trigger matched first, or the default return
Dispatch(intent, input, nodes) ==
  CASE intent = "add" -> AddNodeBranch(input, nodes)
    [] intent = "delete" -> DeleteNodeBranch(input, nodes)
    [] intent = "update" -> UpdateNodeBranch(input, nodes)
    [] intent = "connect" -> ConnectNodesBranch(input, nodes)
    [] intent = "disconnect" -> DisconnectNodesBranch(input, nodes)
    [] intent = "explain" -> ExplainBranch(input, nodes)
    [] OTHER -> DefaultUnknown

Classify(input, nodes) == Dispatch(DetectedIntent(input), input, nodes)

getEnhancedMockResponse(userInput, nodes) == Classify(Normalize(userInput), nodes)

(***************************************************************************)
(* validateAndResolveCommand: the resolution of the references of a        *)
(* command parsed from the remote reply.                                   *)
(***************************************************************************)
Has(command, field) == field \in DOMAIN command

\* command.field is truthy: present and not the empty string
Truthy(command, field) == Has(command, field) /\ command[field] # ""

IsType(command, types) == Has(command, "type") /\ command.type \in types

\* lines 140-164: the node a delete or update reference names, or none
ResolveNodeId(nodeId, nodes) ==
  LET nodeExists == SelectFirst(nodes, LAMBDA n : n.id = nodeId)
      exact == SelectFirst(nodes, LAMBDA n : ToLowerCase(n.label) = ToLowerCase(nodeId))
      allTerms == SelectSeq(SplitSpaces(ToLowerCase(nodeId)), LAMBDA t : Len(t) > 0)
      fuzzy == IF Len(exact) = 0
               THEN SelectFirst(nodes, LAMBDA n : EveryTerm(allTerms, ToLowerCase(n.label)))
               ELSE exact
      longTerms == SelectSeq(SplitSpaces(ToLowerCase(nodeId)), LAMBDA t : Len(t) > 2)
      partial == IF Len(fuzzy) = 0
                 THEN SelectFirst(nodes, LAMBDA n : SomeTerm(longTerms, ToLowerCase(n.label)))
                 ELSE fuzzy
  IN  IF Len(nodeExists) > 0 THEN nodeExists ELSE partial

\* lines 180-181: the node a connect or disconnect reference names, or none
ResolveEndpoint(ref, nodes) == SelectFirst(nodes, LAMBDA n : n.id = ref \/ n.label = ref)

validateAndResolveCommand(command, nodes) ==
  IF IsType(command, {"delete_node", "update_node"}) /\ Truthy(command, "nodeId")
  THEN LET node == ResolveNodeId(command.nodeId, nodes)
       IN  IF Len(node) > 0 THEN [command EXCEPT !.nodeId = node[1].id]
           ELSE Unknown("Node \"" \o command.nodeId \o "\" not found. Available nodes: "
                        \o Join(QuotedLabels(nodes), ", "))
  ELSE IF /\ IsType(command, {"connect_nodes", "disconnect_nodes"})
          /\ Truthy(command, "sourceNodeId")
          /\ Truthy(command, "targetNodeId")
  THEN LET sourceNode == ResolveEndpoint(command.sourceNodeId, nodes)
           targetNode == ResolveEndpoint(command.targetNodeId, nodes)
       IN  IF Len(sourceNode) > 0 /\ Len(targetNode) > 0
           THEN [command EXCEPT !.sourceNodeId = sourceNode[1].id,
                                !.targetNodeId = targetNode[1].id]
           ELSE Unknown("Could not find one or both nodes to connect/disconnect.")
  ELSE command

(***************************************************************************)
(* The /api/ai route.  `upstream` is what the language-model service does  *)
(* with the request; a reply text is one of                                *)
(*   [kind |-> "empty"]                 no text, or the empty string       *)
(*   [kind |-> "prose"]                 text JSON.parse rejects            *)
(*   [kind |-> "null"]                  text that parses to null           *)
(*   [kind |-> "object", value |-> c]   text that parses to the object c   *)
(***************************************************************************)
Failure(error) == [success |-> FALSE, error |-> error]

POST(serverKey, upstream) ==
  IF ~serverKey THEN Failure("API key not configured")
  ELSE CASE upstream.kind = "rejects" -> Failure("API request failed")
         [] upstream.kind = "http_error" -> Failure("API request failed")
         [] upstream.kind = "not_json" -> Failure("API request failed")
         [] upstream.kind \in {"choices", "content"} ->
              [success |-> TRUE, data |-> [generated_text |-> upstream.text]]
         [] OTHER -> Failure("Unexpected API response format")

(***************************************************************************)
(* parseAICommand.  `fetched` is what the await of fetch('/api/ai') and    *)
(* of its json() give: the fetch rejects, the body is not JSON, or the     *)
(* body is the route's reply.  A result says whether the call threw.       *)
(***************************************************************************)
Returned(value) == [threw |-> FALSE, value |-> value]

Thrown == [threw |-> TRUE, value |-> <<>>]

JsonNull == [null |-> TRUE]

\* lines 106-118: JSON.parse of the reply text
JsonParse(text) ==
  CASE text.kind = "object" -> Returned(text.value)
    [] text.kind = "null" -> Returned(JsonNull)
    [] OTHER -> Thrown

\* the parser leaves the remote path for the rule-based parser
Fallback == [threw |-> FALSE, fallback |-> TRUE, value |-> <<>>]

\* lines 19-121: the body of the try block; Fallback is the return of line 103
RemoteAttempt(nodes, fetched) ==
  IF fetched.kind = "rejects" THEN Thrown
  ELSE LET apiData == IF fetched.kind = "not_json"
                      THEN Failure("Failed to parse response")
                      ELSE fetched.body
       IN  IF ~apiData.success THEN Thrown
           ELSE LET text == apiData.data.generated_text
                IN  IF text.kind = "empty" THEN Fallback
                    ELSE LET parsed == JsonParse(text)
                         IN  IF parsed.threw THEN Thrown
                             \* command.type of null is a TypeError
                             ELSE IF parsed.value = JsonNull THEN Thrown
                             ELSE Returned(validateAndResolveCommand(parsed.value, nodes))

\* parseAICommand without its catch block: the error reaches the caller
CatchNothing(attempt) == attempt

\* lines 122-127: the catch block sends every error to the rule-based parser
CatchFallback(attempt) == IF attempt.threw THEN Fallback ELSE attempt

\* lines 15-17: without a key the remote path is not tried
Attempt(nodes, apiKey, fetched) ==
  IF ~apiKey THEN Fallback ELSE CatchFallback(RemoteAttempt(nodes, fetched))

\* lines 16, 103 and 126 are the same call of getEnhancedMockResponse
Complete(attempt, userInput, nodes) ==
  IF attempt.threw THEN attempt
  ELSE IF Has(attempt, "fallback") THEN Returned(getEnhancedMockResponse(userInput, nodes))
  ELSE attempt

parseAICommand(userInput, nodes, apiKey, fetched) ==
  Complete(Attempt(nodes, apiKey, fetched), userInput, nodes)

(***************************************************************************)
(* The inputs of the model: node lists, user texts and remote replies.     *)
(***************************************************************************)
MaxNodes == 2

\* the nodes the Add Node button makes: the k-th is labelled "Node k"
DefaultNodes(k) ==
  [i \in 1..k |-> [id |-> "n" \o ToString(i), label |-> "Node " \o ToString(i)]]

\* the flow of the spec's examples
CallFlow == <<[id |-> "n1", label |-> "Start"], [id |-> "n2", label |-> "End Call"]>>

\* a label that is the id of a later node
Aliased == <<[id |-> "n1", label |-> "n2"], [id |-> "n2", label |-> "Start"]>>

\* a label that contains the whole label of a later node
Overlapping == <<[id |-> "n1", label |-> "End Call Later"], [id |-> "n2", label |-> "End Call"]>>

\* a label that is a number, after a label that contains it
Numbered == <<[id |-> "n1", label |-> "Step 30"], [id |-> "n2", label |-> "3"]>>

NodeLists ==
  {DefaultNodes(k) : k \in 0..MaxNodes}
    \cup {Tail(DefaultNodes(k)) : k \in 2..(MaxNodes + 1)}
    \cup {CallFlow, Aliased, Overlapping, Numbered}

Ordinals == 0..(MaxNodes + 1)

DeleteNumber(n) == "delete node " \o ToString(n)

UpdateNumber(n) == "Update node " \o ToString(n) \o " to say Welcome"

ConnectNumbers(n, m) == "connect node " \o ToString(n) \o " to node " \o ToString(m)

DisconnectNumbers(n, m) == "disconnect node " \o ToString(n) \o " from node " \o ToString(m)

SeverNumbers(n, m) ==
  "for node " \o ToString(n) \o " and node " \o ToString(m) \o " break the connection"

BareAddInputs == {"add a node", "add node", "Add a Node", "  add node  ", "create a step"}

LabelTexts == {"Hello", "Start Call", "welcome"}

AddCalled(label) == "add a node called " \o label

\* pairs of ordinals in which each side takes every value
OrdinalPairs == {p \in Ordinals \X Ordinals : p[1] = 1 \/ p[2] = 2}

OrdinalInputs ==
  {DeleteNumber(n) : n \in Ordinals} \cup {UpdateNumber(n) : n \in Ordinals}
    \cup {ConnectNumbers(p[1], p[2]) : p \in OrdinalPairs}
    \cup {DisconnectNumbers(p[1], p[2]) : p \in OrdinalPairs}
    \cup {SeverNumbers(p[1], p[2]) : p \in OrdinalPairs}

OtherInputs ==
  {"Add a node named 'Welcome'", "add node \"  \"", "how do i add a node",
   "delete the end call node", "Delete the Start node", "delete the zzz node",
   "update node 1", "change step 1 to new state",
   "remove the connection between node 1 and node 2", "disconnect 1 from 2",
   "unlink node 1 from node 2",
   "what does this flow do?", "explain", "hello"}

\* the texts by which a delete command names a node
NamedTexts == {"end call", "call end", "end zzz", "zzz"}

DeleteNamed(text) == "delete the " \o text \o " node"

\* a delete command that names the node by a common word alone
DeleteCommonWord == "delete the node"

UserInputs ==
  BareAddInputs \cup {AddCalled(label) : label \in LabelTexts} \cup OrdinalInputs
    \cup OtherInputs \cup {DeleteNamed(text) : text \in NamedTexts} \cup {DeleteCommonWord}

NodeRefs == {"n1", "n2", "Start", "start", "end call", "call zzz", "2", "zzz"}

EndpointRefs ==
  {<<"n1", "n2">>, <<"n2", "n1">>, <<"Start", "End Call">>, <<"start", "end call">>,
   <<"n1", "zzz">>, <<"1", "2">>}

\* the objects a reply text parses to
RemoteDrafts ==
  {[type |-> "delete_node", nodeId |-> r] : r \in NodeRefs}
    \cup {[type |-> "update_node", nodeId |-> r, nodeLabel |-> "Welcome"] :
            r \in {"n1", "start", "zzz"}}
    \cup {[type |-> t, sourceNodeId |-> p[1], targetNodeId |-> p[2]] :
            t \in {"connect_nodes"}, p \in EndpointRefs}
    \cup {[type |-> "disconnect_nodes", sourceNodeId |-> "start", targetNodeId |-> "n2"],
          [type |-> "delete_node"],
          [type |-> "update_node", nodeId |-> "n1"],
          [type |-> "connect_nodes", sourceNodeId |-> "n1"],
          [type |-> "add_node", nodeLabel |-> "Hello"],
          [type |-> "add_node"],
          [type |-> "explain", message |-> "The flow greets the caller."],
          [type |-> "unknown", message |-> "Please rephrase."],
          [type |-> "move_node", nodeId |-> "n1"],
          <<>>}

ReplyTexts ==
  {[kind |-> "empty"], [kind |-> "prose"], [kind |-> "null"]}
    \cup {[kind |-> "object", value |-> d] : d \in RemoteDrafts}

Upstreams ==
  {[kind |-> "rejects"], [kind |-> "http_error"], [kind |-> "not_json"], [kind |-> "other"]}
    \cup {[kind |-> k, text |-> t] : k \in {"choices", "content"}, t \in ReplyTexts}

(***************************************************************************)
(* One call of parseAICommand at a time, as the assistant panel makes      *)
(* them: the call is made, the fetch of /api/ai settles when a key is      *)
(* configured, the parser resumes, and the caller takes the result.        *)
(***************************************************************************)
VARIABLES pc, userInput, nodes, apiKey, fetched, result

\* The state of the page that owns the graph (Home): `nodes` above is its
\* node list, the one the assistant panel hands to parseAICommand; `edges` is
\* its edge list; `rendered` is what the handlers of the last render closed
\* over; `pending` holds the commands of the assistant that are resolved and
\* not yet handed to handleAICommand; `created` counts the ids generated;
\* `last` records the last handler that ran.
VARIABLES edges, rendered, pending, created, last

callVars == <<pc, userInput, apiKey, fetched, result>>

graphVars == <<edges, rendered, pending, created, last>>

vars == <<pc, userInput, nodes, apiKey, fetched, result, edges, rendered, pending, created,
          last>>

NotFetched == [kind |-> "none"]

\* no call has returned yet
NoResult == [threw |-> FALSE, value |-> [pending |-> TRUE]]

Init ==
  /\ pc = "idle"
  /\ userInput = ""
  /\ nodes = <<>>
  /\ apiKey = FALSE
  /\ fetched = NotFetched
  /\ result = NoResult
  /\ edges = <<>>
  /\ rendered = [nodes |-> <<>>, edges |-> <<>>]
  /\ pending = <<>>
  /\ created = 0
  /\ last = [op |-> "none"]

\* parseAICommand is called without NEXT_PUBLIC_SARVAM_API_KEY: it returns
\* at line 16
InvokeWithoutKey(text, nodeList) ==
  /\ pc = "idle"
  /\ userInput' = text
  /\ nodes' = nodeList
  /\ apiKey' = FALSE
  /\ fetched' = NotFetched
  /\ result' = parseAICommand(text, nodeList, FALSE, NotFetched)
  /\ pc' = "done"
  /\ UNCHANGED graphVars

\* parseAICommand is called with the key and suspends at the fetch
InvokeWithKey(text, nodeList) ==
  /\ pc = "idle"
  /\ userInput' = text
  /\ nodes' = nodeList
  /\ apiKey' = TRUE
  /\ pc' = "fetching"
  /\ UNCHANGED <<fetched, result>>
  /\ UNCHANGED graphVars

\* the awaited fetch and json() settle with `outcome`
Settle(outcome) ==
  /\ pc = "fetching"
  /\ fetched' = outcome
  /\ pc' = "settled"
  /\ UNCHANGED <<userInput, nodes, apiKey, result>>
  /\ UNCHANGED graphVars

\* the fetch of /api/ai rejects
FetchRejects == Settle([kind |-> "rejects"])

\* the response body is not JSON
BodyNotJson == Settle([kind |-> "not_json"])

\* the route handles the request and its reply reaches the parser
RouteReplies(serverKey, upstream) ==
  Settle([kind |-> "json", body |-> POST(serverKey, upstream)])

\* parseAICommand resumes after the await and runs to its return
Resume ==
  /\ pc = "settled"
  /\ result' = parseAICommand(userInput, nodes, apiKey, fetched)
  /\ pc' = "done"
  /\ UNCHANGED <<userInput, nodes, apiKey, fetched>>
  /\ UNCHANGED graphVars

\* the caller takes the command
Deliver ==
  /\ pc = "done"
  /\ pc' = "idle"
  /\ userInput' = ""
  /\ nodes' = <<>>
  /\ apiKey' = FALSE
  /\ fetched' = NotFetched
  /\ result' = NoResult
  /\ UNCHANGED graphVars

Next ==
  \/ \E text \in UserInputs, nodeList \in NodeLists : InvokeWithoutKey(text, nodeList)
  \/ \E text \in UserInputs, nodeList \in NodeLists : InvokeWithKey(text, nodeList)
  \/ FetchRejects
  \/ BodyNotJson
  \/ \E serverKey \in BOOLEAN, upstream \in Upstreams : RouteReplies(serverKey, upstream)
  \/ Resume
  \/ Deliver

Spec == Init /\ [][Next]_vars

(***************************************************************************)
(* The page that owns the graph (Home, route.ts lines 96-298).  A handler   *)
(* is a closure of the render that made it: it reads `edges` and            *)
(* nodes.length of that render, and changes the state by updaters, which    *)
(* React applies in order to the state as it then is.  Edge ids are unique  *)
(* and not read by any handler: an edge is its place in the list.          *)
(* onNodesChange and onEdgesChange apply what the canvas library computes   *)
(* (applyNodeChanges, applyEdgeChanges) and the storage effects copy the    *)
(* state: none of them is an action here.                                   *)
(***************************************************************************)
\* the commands in flight at once, and the edges the list may hold
MaxPending == 1

MaxEdges == 2

\* generateNodeId never repeats: the ids generated so far are counted
MaxCreated == MaxNodes

Graph == [nodes |-> nodes, edges |-> edges]

NewEdge(source, target) == [source |-> source, target |-> target]

\* lines 112-127
onConnect(connection, closure, state) ==
  LET edgeExists == \E i \in 1..Len(closure.edges) :
                      /\ closure.edges[i].source = connection.source
                      /\ closure.edges[i].target = connection.target
  IN  IF ~edgeExists /\ connection.source # "" /\ connection.target # ""
      THEN [state EXCEPT
              !.edges = Append(@, NewEdge(connection.source, connection.target))]
      ELSE state

\* lines 130-138
handleAddNode(closure, state, id) ==
  [state EXCEPT
     !.nodes = Append(@, [id |-> id,
                          label |-> "Node " \o ToString(Len(closure.nodes) + 1)])]

\* handleDeleteNode that keeps the edges that end at the node
handleDeleteNodeKeepsIncoming(nodeId, state) ==
  [nodes |-> SelectSeq(state.nodes, LAMBDA node : node.id # nodeId),
   edges |-> SelectSeq(state.edges, LAMBDA edge : edge.source # nodeId)]

\* lines 141-145
handleDeleteNode(nodeId, state) ==
  [nodes |-> SelectSeq(state.nodes, LAMBDA node : node.id # nodeId),
   edges |-> SelectSeq(state.edges,
                       LAMBDA edge : edge.source # nodeId /\ edge.target # nodeId)]

\* lines 148-154
handleUpdateNodeLabel(nodeId, label, state) ==
  [state EXCEPT
     !.nodes = [i \in 1..Len(@) |->
                  IF @[i].id = nodeId THEN [@[i] EXCEPT !.label = label] ELSE @[i]]]

\* lines 157-162
handleClearAll(confirmed, state) ==
  IF confirmed THEN [nodes |-> <<>>, edges |-> <<>>] ELSE state

\* lines 206-270
handleAICommand(command, closure, state, id) ==
  CASE IsType(command, {"add_node"}) ->
         [state EXCEPT
            !.nodes = Append(@, [id |-> id,
                                 label |-> IF Truthy(command, "nodeLabel")
                                           THEN command.nodeLabel
                                           ELSE "Node "
                                                  \o ToString(Len(closure.nodes) + 1)])]
    [] IsType(command, {"delete_node"}) ->
         IF Truthy(command, "nodeId") THEN handleDeleteNode(command.nodeId, state)
         ELSE state
    [] IsType(command, {"update_node"}) ->
         IF Truthy(command, "nodeId") /\ Truthy(command, "nodeLabel")
         THEN handleUpdateNodeLabel(command.nodeId, command.nodeLabel, state)
         ELSE state
    [] IsType(command, {"connect_nodes"}) ->
         IF Truthy(command, "sourceNodeId") /\ Truthy(command, "targetNodeId")
         THEN LET edgeExists == \E i \in 1..Len(closure.edges) :
                                  /\ closure.edges[i].source = command.sourceNodeId
                                  /\ closure.edges[i].target = command.targetNodeId
              IN  IF ~edgeExists
                  THEN [state EXCEPT
                          !.edges = Append(@, NewEdge(command.sourceNodeId,
                                                      command.targetNodeId))]
                  ELSE state
         ELSE state
    [] IsType(command, {"disconnect_nodes"}) ->
         IF Truthy(command, "sourceNodeId") /\ Truthy(command, "targetNodeId")
         THEN [state EXCEPT
                 !.edges = SelectSeq(@, LAMBDA edge :
                                          ~(/\ edge.source = command.sourceNodeId
                                            /\ edge.target = command.targetNodeId))]
         ELSE state
    [] OTHER -> state

\* the commands parseAICommand returns for a node list that change the
\* graph, and one that does not: the ids they carry are ids of that list
ResolvedCommands(nodeList) ==
  {[type |-> "add_node", nodeLabel |-> "Node " \o ToString(Len(nodeList) + 1)],
   [type |-> "add_node"],
   [type |-> "explain", message |-> "The flow is currently empty."]}
    \cup {[type |-> "delete_node", nodeId |-> id] : id \in NodeIds(nodeList)}
    \cup {[type |-> "update_node", nodeId |-> id, nodeLabel |-> "Welcome"] :
            id \in NodeIds(nodeList)}
    \cup {[type |-> t, sourceNodeId |-> a, targetNodeId |-> b] :
            t \in {"connect_nodes", "disconnect_nodes"},
            a \in NodeIds(nodeList), b \in NodeIds(nodeList)}

\* the connections the canvas offers: between the nodes it shows, or with an
\* end missing
Connections(nodeList) ==
  {[source |-> a, target |-> b] : a \in NodeIds(nodeList), b \in NodeIds(nodeList)}
    \cup {[source |-> "", target |-> b] : b \in NodeIds(nodeList)}

NewId == "n" \o ToString(created + 1)

\* the handler `op` ran
Ran(op) == [op |-> op]

\* the state becomes `graph`; a handler of a user's event is followed by the
\* render of the page
Commit(graph, rerender) ==
  /\ Len(graph.nodes) <= MaxNodes
  /\ Len(graph.edges) <= MaxEdges
  /\ nodes' = graph.nodes
  /\ edges' = graph.edges
  /\ rendered' = IF rerender THEN graph ELSE rendered
  /\ UNCHANGED callVars

\* the Add Node button of the toolbar
ClickAddNode ==
  /\ created < MaxCreated
  /\ Commit(handleAddNode(rendered, Graph, NewId), TRUE)
  /\ created' = created + 1
  /\ last' = Ran("handleAddNode")
  /\ UNCHANGED pending

\* the delete button of a node of the canvas
ClickDeleteNode(nodeId) ==
  /\ Commit(handleDeleteNode(nodeId, Graph), TRUE)
  /\ last' = Ran("handleDeleteNode")
  /\ UNCHANGED <<pending, created>>

\* a label edited on the canvas
EditNodeLabel(nodeId, label) ==
  /\ Commit(handleUpdateNodeLabel(nodeId, label, Graph), TRUE)
  /\ last' = Ran("handleUpdateNodeLabel")
  /\ UNCHANGED <<pending, created>>

\* a connection drawn on the canvas
DrawConnection(connection) ==
  /\ Commit(onConnect(connection, rendered, Graph), TRUE)
  /\ last' = Ran("onConnect")
  /\ UNCHANGED <<pending, created>>

\* the Clear All button, confirmed or not
ClickClearAll(confirmed) ==
  /\ Commit(handleClearAll(confirmed, Graph), TRUE)
  /\ last' = Ran("handleClearAll")
  /\ UNCHANGED <<pending, created>>

\* the assistant panel sends a text; parseAICommand resolves it against the
\* nodes the panel was rendered with and the command is in flight
SubmitCommand(command) ==
  /\ Len(pending) < MaxPending
  /\ pending' = Append(pending, command)
  /\ UNCHANGED <<nodes, edges, rendered, created, last>>
  /\ UNCHANGED callVars

\* a command in flight reaches onCommand: handleAICommand of the last render
\* runs; the page is rendered later
DeliverCommand(k) ==
  /\ IsType(pending[k], {"add_node"}) => created < MaxCreated
  /\ Commit(handleAICommand(pending[k], rendered, Graph, NewId), FALSE)
  /\ created' = IF IsType(pending[k], {"add_node"}) THEN created + 1 ELSE created
  /\ pending' = [i \in 1..(Len(pending) - 1) |-> IF i < k THEN pending[i] ELSE pending[i + 1]]
  /\ last' = Ran("handleAICommand")

\* React renders the page with the state as it is
Render ==
  /\ rendered # Graph
  /\ rendered' = Graph
  /\ UNCHANGED <<nodes, edges, pending, created, last>>
  /\ UNCHANGED callVars

GraphNext ==
  \/ ClickAddNode
  \/ \E nodeId \in NodeIds(rendered.nodes) : ClickDeleteNode(nodeId)
  \/ \E nodeId \in NodeIds(rendered.nodes) : EditNodeLabel(nodeId, "Welcome")
  \/ \E connection \in Connections(rendered.nodes) : DrawConnection(connection)
  \/ \E confirmed \in BOOLEAN : ClickClearAll(confirmed)
  \/ \E command \in ResolvedCommands(rendered.nodes) : SubmitCommand(command)
  \/ \E k \in 1..Len(pending) : DeliverCommand(k)
  \/ Render

GraphSpec == Init /\ [][GraphNext]_vars

(***************************************************************************)
(* What the claims speak of.                                               *)
(***************************************************************************)
\* the type of AICommand, src/unnamed/part_000 line 14
CommandTypes ==
  {"add_node", "delete_node", "update_node", "connect_nodes", "disconnect_nodes",
   "explain", "unknown"}

Done == pc = "done"

\* the call returned at line 16: only the rule-based parser ran
ByRules == Done /\ ~apiKey

\* the route replied with success and a text
Replied == apiKey /\ fetched.kind = "json" /\ fetched.body.success

ReplyText == fetched.body.data.generated_text

\* the reply text parsed to an object, the draft command
RepliedDraft == Done /\ Replied /\ ReplyText.kind = "object"

Draft == ReplyText.value

InRange(n) == 1 <= n /\ n <= Len(nodes)

RuleBasedResult == Returned(getEnhancedMockResponse(userInput, nodes))

\* C1: every call of parseAICommand completes without throwing and returns a
\* command whose type is one of the seven of AICommand, whatever the remote
\* source does.
C1_Totality == Done => ~result.threw /\ IsType(result.value, CommandTypes)

\* C2: a returned delete_node, update_node, connect_nodes or disconnect_nodes
\* command carries every node identifier of its type, each the id of a node of
\* the list the call was given.
C2_ResolvedIdentifiers ==
  Done =>
    /\ IsType(result.value, {"delete_node", "update_node"}) =>
         Has(result.value, "nodeId") /\ result.value.nodeId \in NodeIds(nodes)
    /\ IsType(result.value, {"connect_nodes", "disconnect_nodes"}) =>
         /\ Has(result.value, "sourceNodeId")
         /\ Has(result.value, "targetNodeId")
         /\ result.value.sourceNodeId \in NodeIds(nodes)
         /\ result.value.targetNodeId \in NodeIds(nodes)

\* the remote attempt failed: no key, the fetch rejected, the body was not
\* JSON, the success flag was false, there was no text, or the text did not
\* parse to an object
RemoteFailed ==
  \/ ~apiKey
  \/ fetched.kind \in {"rejects", "not_json"}
  \/ fetched.kind = "json" /\ ~fetched.body.success
  \/ Replied /\ ReplyText.kind \in {"empty", "prose", "null"}

\* C3: when the remote attempt fails in any way, parseAICommand returns
\* exactly what the rule-based parser returns for the same text and nodes,
\* and nothing is thrown.
C3_FallbackOnFailure == Done /\ RemoteFailed => result = RuleBasedResult

C3_Witness ==
  /\ Done
  /\ Replied
  /\ ReplyText.kind = "prose"
  /\ userInput = "delete the end call node"
  /\ result = Returned([type |-> "delete_node", nodeId |-> "n2"])

\* a draft with the shape the prompt asks for: a type of AICommand with the
\* fields required for it
WellFormed(draft) ==
  /\ IsType(draft, CommandTypes)
  /\ IsType(draft, {"delete_node", "update_node"}) => Has(draft, "nodeId")
  /\ IsType(draft, {"add_node", "update_node"}) => Has(draft, "nodeLabel")
  /\ IsType(draft, {"connect_nodes", "disconnect_nodes"}) =>
       Has(draft, "sourceNodeId") /\ Has(draft, "targetNodeId")

\* C4: a reply that parses as JSON but is not a well-formed command is a
\* failure of the remote attempt: the rule-based result is returned.
C4_DeviationFallsBack == RepliedDraft /\ ~WellFormed(Draft) => result = RuleBasedResult

TriggeredBy(input) == {i \in 1..Len(Detectors) : Triggered(input, i)}

DisconnectPhrased ==
  {DisconnectNumbers(p[1], p[2]) : p \in OrdinalPairs}
    \cup {"remove the connection between node 1 and node 2"}

\* C5: no input matches the trigger of more than one detector, and an input
\* phrased as a disconnect is never classified as connect_nodes or delete_node.
C5_ExclusiveDetectors ==
  ByRules =>
    /\ Cardinality(TriggeredBy(Normalize(userInput))) <= 1
    /\ userInput \in DisconnectPhrased =>
         ~IsType(result.value, {"connect_nodes", "delete_node"})

\* C6: "add a node called X" yields add_node with the label X as typed.
C6_ExplicitLabel ==
  ByRules =>
    \A label \in LabelTexts :
      userInput = AddCalled(label) =>
        result.value = [type |-> "add_node", nodeLabel |-> label]

\* C7: an add command without a label, given k nodes, yields add_node with the
\* label "Node k+1", and every add_node of the rule-based parser has a label.
C7_DefaultLabel ==
  ByRules =>
    /\ userInput \in BareAddInputs =>
         result.value =
           [type |-> "add_node", nodeLabel |-> "Node " \o ToString(Len(nodes) + 1)]
    /\ IsType(result.value, {"add_node"}) => Has(result.value, "nodeLabel")

C7_Witness ==
  /\ ByRules
  /\ userInput = "Add a Node"
  /\ Len(nodes) = 2
  /\ result.value = [type |-> "add_node", nodeLabel |-> "Node 3"]

IsUnknown(command) == IsType(command, {"unknown"})

\* the command names the nodes at positions n and m as its two ends
Joins(command, n, m) ==
  /\ Has(command, "sourceNodeId") /\ command.sourceNodeId = nodes[n].id
  /\ Has(command, "targetNodeId") /\ command.targetNodeId = nodes[m].id

\* what both versions of C8 say of update, connect and disconnect commands,
\* and of delete commands whose number is in range
OrdinalInRangeOrNotDelete ==
  /\ \A n \in Ordinals :
       /\ userInput = DeleteNumber(n) /\ InRange(n) =>
            result.value = [type |-> "delete_node", nodeId |-> nodes[n].id]
       /\ userInput = UpdateNumber(n) =>
            IF InRange(n)
            THEN IsType(result.value, {"update_node"}) /\ result.value.nodeId = nodes[n].id
            ELSE IsUnknown(result.value)
  /\ \A p \in OrdinalPairs :
       /\ userInput = ConnectNumbers(p[1], p[2]) =>
            IF InRange(p[1]) /\ InRange(p[2])
            THEN IsType(result.value, {"connect_nodes"}) /\ Joins(result.value, p[1], p[2])
            ELSE IsUnknown(result.value)
       /\ userInput = SeverNumbers(p[1], p[2]) =>
            IF InRange(p[1]) /\ InRange(p[2])
            THEN IsType(result.value, {"disconnect_nodes"})
                 /\ Joins(result.value, p[1], p[2])
            ELSE IsUnknown(result.value)
       /\ userInput = DisconnectNumbers(p[1], p[2]) =>
            IF InRange(p[1]) /\ InRange(p[2])
            THEN Joins(result.value, p[1], p[2])
            ELSE IsUnknown(result.value)

\* C8 as claimed: "node N" resolves to the node at index N-1 when
\* 1 <= N <= len(nodes), and to no node, the command becoming unknown, when
\* N = 0 or N > len(nodes), whatever the labels are.
C8_OrdinalClaim ==
  ByRules =>
    /\ OrdinalInRangeOrNotDelete
    /\ \A n \in Ordinals :
         userInput = DeleteNumber(n) /\ ~InRange(n) => IsUnknown(result.value)

\* the positions of the nodes whose label is, or contains, the text
LabelIs(text) == {i \in 1..Len(nodes) : ToLowerCase(nodes[i].label) = text}

LabelHas(text) == {i \in 1..Len(nodes) : Includes(ToLowerCase(nodes[i].label), text)}

Least(positions) == CHOOSE i \in positions : \A k \in positions : i <= k

\* C8 as amended: as claimed for update, connect and disconnect and for a
\* delete whose number is in range; "delete node N" with N = 0 or
\* N > len(nodes) searches the labels for the digits of N instead, deletes the
\* first node whose label is N, else the first whose label contains N, and
\* is unknown only when no label contains N.
C8_OrdinalResolution ==
  ByRules =>
    /\ OrdinalInRangeOrNotDelete
    /\ \A n \in Ordinals :
         userInput = DeleteNumber(n) /\ ~InRange(n) =>
           IF LabelHas(ToString(n)) = {} THEN IsUnknown(result.value)
           ELSE result.value =
                  [type |-> "delete_node",
                   nodeId |-> nodes[IF LabelIs(ToString(n)) # {}
                                    THEN Least(LabelIs(ToString(n)))
                                    ELSE Least(LabelHas(ToString(n)))].id]

C8_Witness ==
  /\ ByRules
  /\ userInput = DeleteNumber(3)
  /\ nodes = Numbered
  /\ result.value = [type |-> "delete_node", nodeId |-> "n2"]

\* C9: a reference of a draft that is the id of a node selects that node,
\* whatever the labels of the nodes before it; a reference that is no id and
\* is the label of a node, whatever its case, selects the first such node.
C9_IdentityPrecedence ==
  RepliedDraft =>
    /\ IsType(Draft, {"delete_node", "update_node"}) /\ Truthy(Draft, "nodeId") =>
         /\ Draft.nodeId \in NodeIds(nodes) => result.value = Draft
         /\ Draft.nodeId \notin NodeIds(nodes) /\ LabelIs(ToLowerCase(Draft.nodeId)) # {} =>
              result.value =
                [Draft EXCEPT !.nodeId = nodes[Least(LabelIs(ToLowerCase(Draft.nodeId)))].id]
    /\ /\ IsType(Draft, {"connect_nodes", "disconnect_nodes"})
       /\ Truthy(Draft, "sourceNodeId")
       /\ Truthy(Draft, "targetNodeId")
       /\ Draft.sourceNodeId \in NodeIds(nodes)
       /\ Draft.targetNodeId \in NodeIds(nodes)
       => result.value = Draft

SameNode(a, b) ==
  \/ IsUnknown(a) /\ IsUnknown(b)
  \/ /\ IsType(a, {"delete_node"}) /\ IsType(b, {"delete_node"})
     /\ a.nodeId = b.nodeId

\* C10: one policy for both sources and both kinds of reference: an ordinal
\* in a remote delete draft selects the node the rule-based parser selects
\* for "delete node N", and the ends of a connect or disconnect draft are
\* resolved as the reference of a delete or update draft is (id, then label
\* in any case, then fuzzy label).
C10_OnePolicy ==
  RepliedDraft =>
    /\ \A n \in Ordinals :
         Draft = [type |-> "delete_node", nodeId |-> ToString(n)] =>
           SameNode(result.value, getEnhancedMockResponse(DeleteNumber(n), nodes))
    /\ /\ IsType(Draft, {"connect_nodes", "disconnect_nodes"})
       /\ Truthy(Draft, "sourceNodeId")
       /\ Truthy(Draft, "targetNodeId")
       => IF /\ Len(ResolveNodeId(Draft.sourceNodeId, nodes)) > 0
             /\ Len(ResolveNodeId(Draft.targetNodeId, nodes)) > 0
          THEN result.value =
                 [Draft EXCEPT
                    !.sourceNodeId = ResolveNodeId(Draft.sourceNodeId, nodes)[1].id,
                    !.targetNodeId = ResolveNodeId(Draft.targetNodeId, nodes)[1].id]
          ELSE IsUnknown(result.value)

\* the message of the command names the label of every node of the list
ListsEveryLabel(command) ==
  /\ Has(command, "message")
  /\ \A i \in 1..Len(nodes) : Includes(command.message, "\"" \o nodes[i].label \o "\"")

NotFoundDiagnostic(command) == IsUnknown(command) /\ ListsEveryLabel(command)

\* the texts of the model that name a node by a label no node list has
UnmatchedTexts == {"delete the zzz node"}

\* C11: a delete, update, connect or disconnect command that names a node,
\* by ordinal or by text, matching no node of the list gives unknown with a
\* message that lists the labels of all the nodes of the list.
C11_NotFoundDiagnostic ==
  ByRules =>
    /\ userInput \in UnmatchedTexts => NotFoundDiagnostic(result.value)
    /\ \A n \in Ordinals :
         /\ userInput = DeleteNumber(n) /\ ~InRange(n) /\ LabelHas(ToString(n)) = {} =>
              NotFoundDiagnostic(result.value)
         /\ userInput = UpdateNumber(n) /\ ~InRange(n) => NotFoundDiagnostic(result.value)
    /\ \A p \in OrdinalPairs :
         /\ userInput \in {ConnectNumbers(p[1], p[2]), SeverNumbers(p[1], p[2])}
         /\ ~(InRange(p[1]) /\ InRange(p[2]))
         => NotFoundDiagnostic(result.value)

\* the delete half of C11, which the code keeps
C11_DeleteDiagnostic ==
  ByRules =>
    /\ userInput \in UnmatchedTexts => NotFoundDiagnostic(result.value)
    /\ \A n \in Ordinals :
         userInput = DeleteNumber(n) /\ ~InRange(n) /\ LabelHas(ToString(n)) = {} =>
           NotFoundDiagnostic(result.value)

\* the words of a text, and those of them that are no common word
Tokens(text) == SelectSeq(SplitSpaces(ToLowerCase(text)), LAMBDA t : Len(t) > 0)

Remaining(text) == SelectSeq(Tokens(text), LAMBDA t : t \notin StopWords)

\* the positions of the nodes whose label contains every, or some, token
HasEvery(tokens) ==
  {i \in 1..Len(nodes) :
     \A k \in 1..Len(tokens) : Includes(ToLowerCase(nodes[i].label), tokens[k])}

HasSome(tokens) ==
  {i \in 1..Len(nodes) :
     \E k \in 1..Len(tokens) :
       Len(tokens[k]) > 2 /\ Includes(ToLowerCase(nodes[i].label), tokens[k])}

\* the tiers of the label search, highest first, for a text and its tokens
Tiers(text, tokens) ==
  <<LabelIs(ToLowerCase(text)),
    IF Len(tokens) > 0 THEN HasEvery(tokens) ELSE {},
    IF Len(tokens) > 0 THEN HasSome(tokens) ELSE {}>>

\* the result is delete_node of the first node of the highest tier that has a
\* node, and no delete_node when no tier has one
SelectsByTier(tiers) ==
  IF \A t \in 1..Len(tiers) : tiers[t] = {}
  THEN ~IsType(result.value, {"delete_node"})
  ELSE result.value =
         [type |-> "delete_node",
          nodeId |-> nodes[Least(tiers[CHOOSE t \in 1..Len(tiers) :
                                        /\ tiers[t] # {}
                                        /\ \A u \in 1..(t - 1) : tiers[u] = {}])].id]

\* C13 as claimed: a delete command naming a node by text selects the first
\* node, in list order, of the highest tier that has a node (exact label in
\* any case, then every token that is no common word, then any such token
\* longer than 2 characters); common words alone select no node, and with no
\* node at any tier the result is no delete_node.
C13_TieredClaim ==
  ByRules =>
    /\ \A text \in NamedTexts :
         userInput = DeleteNamed(text) => SelectsByTier(Tiers(text, Remaining(text)))
    /\ userInput = DeleteCommonWord => ~IsType(result.value, {"delete_node"})

\* C13 as amended: as claimed when some token is no common word; when every
\* token is a common word the tokens are all kept and searched in the same
\* tiers, so "delete the node" deletes the first node whose label contains
\* "node".
C13_TieredFirstMatch ==
  ByRules =>
    /\ \A text \in NamedTexts :
         userInput = DeleteNamed(text) => SelectsByTier(Tiers(text, Remaining(text)))
    /\ userInput = DeleteCommonWord => SelectsByTier(Tiers("node", Tokens("node")))

C13_Witness ==
  /\ ByRules
  /\ userInput = DeleteCommonWord
  /\ nodes = DefaultNodes(2)
  /\ result.value = [type |-> "delete_node", nodeId |-> "n1"]

\* the tiers are ordered: the exact label wins over an earlier node that
\* contains every token
C13_ExactFirst ==
  /\ ByRules
  /\ userInput = DeleteNamed("end call")
  /\ nodes = Overlapping
  /\ result.value = [type |-> "delete_node", nodeId |-> "n2"]

\* the texts of the model that ask for an explanation and nothing else
ExplainInputs == {"what does this flow do?", "explain"}

\* the first position at which w occurs in s, Len(s) + 1 when it does not
IndexOf(s, w) ==
  IF Includes(s, w)
  THEN CHOOSE i \in 1..Len(s) : StartsAt(s, i, w) /\ \A k \in 1..(i - 1) : ~StartsAt(s, k, w)
  ELSE Len(s) + 1

\* the k-th node as the message lists it: its 1-based number and its label
Entry(k) == ToString(k) \o ". \"" \o nodes[k].label \o "\""

\* the message has the entry of every node, the entries in list order, and
\* the number of nodes
ListsFlow(message) ==
  /\ \A k \in 1..Len(nodes) : Includes(message, Entry(k))
  /\ \A k \in 1..(Len(nodes) - 1) : IndexOf(message, Entry(k)) < IndexOf(message, Entry(k + 1))
  /\ Includes(message, "Total: " \o ToString(Len(nodes)) \o " node")

\* C15: with no node, every input classified as an explain request gives
\* explain with a message saying that the flow is currently empty; with one
\* or more nodes the message lists every label in list order with its
\* 1-based number, and the number of nodes.
C15_EmptyGraphExplain ==
  ByRules =>
    /\ userInput \in ExplainInputs => IsType(result.value, {"explain"})
    /\ IsType(result.value, {"explain"}) =>
         /\ Has(result.value, "message")
         /\ IF Len(nodes) = 0
            THEN Includes(result.value.message, "flow is currently empty")
            ELSE ListsFlow(result.value.message)

C15_Witness ==
  /\ ByRules
  /\ userInput = "explain"
  /\ nodes = <<>>
  /\ IsType(result.value, {"explain"})
  /\ Includes(result.value.message, "flow is currently empty")

\* the case of a flow with nodes
C15_ListedFlow ==
  /\ ByRules
  /\ userInput = "what does this flow do?"
  /\ nodes = CallFlow
  /\ result.value.message
       = "Current flow structure:\n\nNodes:\n1. \"Start\"\n2. \"End Call\"\n\nTotal: 2 node(s)"

\* C12: the edge list never holds two edges with the same source and target;
\* the same connect_nodes command handed twice to handleAICommand leaves one
\* edge for the pair, however the two calls interleave with the render.
C12_IdempotentConnect ==
  \A i \in 1..Len(edges) : \A k \in 1..Len(edges) :
    i # k => ~(edges[i].source = edges[k].source /\ edges[i].target = edges[k].target)

\* the nodes other than X, in their order, and the edges not incident to X
NodesWithout(X) == SelectSeq(nodes, LAMBDA node : node.id # X)

EdgesWithout(X) == SelectSeq(edges, LAMBDA edge : edge.source # X /\ edge.target # X)

\* the edges other than those from `source` to `target`
EdgesNotJoining(source, target) ==
  SelectSeq(edges, LAMBDA edge : edge.source # source \/ edge.target # target)

\* a step that applies delete_node for X, from the canvas or from a command
DeletesNode(X) ==
  \/ ClickDeleteNode(X)
  \/ \E k \in 1..Len(pending) :
       DeliverCommand(k) /\ pending[k] = [type |-> "delete_node", nodeId |-> X]

\* a step that applies disconnect_nodes for the pair
DisconnectsNodes(source, target) ==
  \E k \in 1..Len(pending) :
    /\ DeliverCommand(k)
    /\ pending[k] = [type |-> "disconnect_nodes", sourceNodeId |-> source,
                     targetNodeId |-> target]

\* the ids a command or the canvas can name: those generated so far
KnownIds == {"n" \o ToString(i) : i \in 1..created}

\* C14: applying delete_node for X removes node X and every edge whose source
\* or target is X and leaves every other node and edge as it is; applying
\* disconnect_nodes removes every edge with the given source and target and
\* changes no node and no other edge.
C14_FrameEffect ==
  [][/\ \A X \in KnownIds :
          DeletesNode(X) => nodes' = NodesWithout(X) /\ edges' = EdgesWithout(X)
     /\ \A a \in KnownIds : \A b \in KnownIds :
          DisconnectsNodes(a, b) => nodes' = nodes /\ edges' = EdgesNotJoining(a, b)]_vars

\* node n1 was deleted with its edge; n2 and the edge from n2 to n2 remain
C14_Witness ==
  /\ last.op = "handleDeleteNode"
  /\ created = 2
  /\ NodeIds(nodes) = {"n2"}
  /\ edges = <<NewEdge("n2", "n2")>>

\* C16: every edge's source and target are ids of nodes of the node list,
\* after any sequence of user actions and of commands resolved against an
\* earlier node list.
C16_NoDanglingEdges ==
  \A i \in 1..Len(edges) :
    edges[i].source \in NodeIds(nodes) /\ edges[i].target \in NodeIds(nodes)

====
